---- MODULE Spec2Model ----
(***************************************************************************)
(* pandapower/pypower/pfsoln.py: pfsoln updates the bus, gen and branch    *)
(* tables in place to match a solved power flow (voltage vector V).        *)
(*                                                                         *)
(* Tables are functions over 0-based row numbers, as numpy arrays are, so  *)
(* that a row number of gen and a position inside the array `on` are both  *)
(* small naturals and can be confused exactly as in the code.              *)
(*                                                                         *)
(* Numbers.  Complex quantities (V, Ybus, Yf, Yt, Ibus, Sbus) are Gaussian *)
(* integers [re, im]; products and sums are exact.  Pg and Qg are exact    *)
(* rationals <<n, d>> in lowest terms with d > 0 (the code divides by a    *)
(* generator count and by a reactive range).  Floating-point rounding is   *)
(* not modelled.  EPS = finfo(float).eps = 2^-52 is below the resolution   *)
(* of every modelled value: a non-zero range r is integral, and r + EPS    *)
(* differs from r by at most one unit in the last place, so r + EPS is     *)
(* taken as r; a zero range gives a quotient x / EPS of order 10^16,       *)
(* modelled by the value HUGE (HUGE * 0 = 0, as for a finite float).       *)
(***************************************************************************)
EXTENDS Integers, Sequences, FiniteSets, TLC

\* ---- sizes of the modelled network ----
NB == 2     \* buses
NG == 4     \* generator rows
NBR == 2    \* branch rows

Buses == 0 .. (NB - 1)
GenRows == 0 .. (NG - 1)
BranchRows == 0 .. (NBR - 1)

VARIABLES baseMVA, bus, gen, branch, Ybus, Yf, Yt, V, ref, ref_gens, Ibus,
          pc, k, outcome, call, bus_pre, gen_pre, branch_pre, ret1

inputs == <<baseMVA, Ybus, Yf, Yt, V, ref, ref_gens, Ibus>>
pre == <<bus_pre, gen_pre, branch_pre>>
vars == <<baseMVA, bus, gen, branch, Ybus, Yf, Yt, V, ref, ref_gens, Ibus,
          pc, k, outcome, call, bus_pre, gen_pre, branch_pre, ret1>>

\* ---- integers and rationals ----
AbsInt(x) == IF x < 0 THEN -x ELSE x

RECURSIVE GCD(_, _)
GCD(a, b) == IF b = 0 THEN a ELSE GCD(b, a % b)

Norm(n, d) ==
  LET g == GCD(AbsInt(n), AbsInt(d))
      s == IF d < 0 THEN -1 ELSE 1
  IN  <<(s * n) \div g, (s * d) \div g>>

Zero == <<0, 1>>
HUGE == <<1, 0>>
FromInt(n) == <<n, 1>>
IsHuge(a) == a[2] = 0

RAdd(a, b) ==
  IF IsHuge(a) \/ IsHuge(b) THEN HUGE
  ELSE Norm(a[1] * b[2] + b[1] * a[2], a[2] * b[2])

RSub(a, b) == RAdd(a, <<-b[1], b[2]>>)

RMul(a, b) ==
  IF IsHuge(a) \/ IsHuge(b)
  THEN IF a[1] = 0 \/ b[1] = 0 THEN Zero ELSE HUGE
  ELSE Norm(a[1] * b[1], a[2] * b[2])

\* a / b in floating point; a non-zero a over 0 is inf, never stored by the code
RDiv(a, b) ==
  IF IsHuge(a) \/ b[1] = 0 THEN HUGE ELSE Norm(a[1] * b[2], a[2] * b[1])

RECURSIVE RSum(_, _)
RSum(S, f) ==
  IF S = {} THEN Zero
  ELSE LET x == CHOOSE y \in S : TRUE IN RAdd(f[x], RSum(S \ {x}, f))

RECURSIVE ISum(_, _)
ISum(S, f) ==
  IF S = {} THEN 0
  ELSE LET x == CHOOSE y \in S : TRUE IN f[x] + ISum(S \ {x}, f)

\* ---- complex numbers (numpy complex128 restricted to Gaussian integers) ----
Cx(a, b) == [re |-> a, im |-> b]
CAdd(x, y) == Cx(x.re + y.re, x.im + y.im)
CSub(x, y) == Cx(x.re - y.re, x.im - y.im)
CMul(x, y) == Cx(x.re * y.re - x.im * y.im, x.re * y.im + x.im * y.re)
conj(x) == Cx(x.re, -x.im)
CScale(x, s) == Cx(x.re * s, x.im * s)

RECURSIVE CSum(_, _)
CSum(S, f) ==
  IF S = {} THEN Cx(0, 0)
  ELSE LET x == CHOOSE y \in S : TRUE IN CAdd(f[x], CSum(S \ {x}, f))

\* row i of the sparse matrix M times the vector v
RowTimes(M, i, v) == CSum(DOMAIN v, [j \in DOMAIN v |-> CMul(M[i][j], v[j])])

\* abs(V): exact for the phasors of the model, which lie on the axes
abs(z) == CHOOSE r \in 0 .. (z.re * z.re + z.im * z.im) :
            r * r = z.re * z.re + z.im * z.im

\* angle(V) * 180. / pi for a phasor on an axis
angle_deg(z) ==
  CASE z.im = 0 /\ z.re >= 0 -> 0
    [] z.im = 0 /\ z.re < 0  -> 180
    [] z.re = 0 /\ z.im > 0  -> 90
    [] z.re = 0 /\ z.im < 0  -> -90

\* ---- numpy helpers ----
\* flatnonzero: the members of S in ascending order, as a 0-based array
find(S) ==
  [p \in 0 .. (Cardinality(S) - 1) |->
     CHOOSE x \in S : Cardinality({y \in S : y < x}) = p]

Range(f) == {f[x] : x \in DOMAIN f}

\* ---- pfsoln, lines 38-43: generator info and injected bus powers ----
on_of(genT) == find({i \in DOMAIN genT : genT[i].GEN_STATUS > 0})

gbus_of(genT, onA) == [p \in DOMAIN onA |-> genT[onA[p]].GEN_BUS]

Sbus_of(Vv, YbusM, IbusV, gbusA) ==
  [p \in DOMAIN gbusA |->
     CMul(Vv[gbusA[p]],
          conj(CSub(RowTimes(YbusM, gbusA[p], Vv), IbusV[gbusA[p]])))]

on == on_of(gen)
gbus == gbus_of(gen, on)
Sbus == Sbus_of(V, Ybus, Ibus, gbus)

\* ---- _update_v ----
\* a mutant of update_v: the bus table is left as it was
update_v_skip(busT, Vv) == busT

update_v(busT, Vv) ==
  [b \in DOMAIN busT |->
     [busT[b] EXCEPT !.VM = abs(Vv[b]), !.VA = angle_deg(Vv[b])]]

\* ---- _update_q ----
\* a mutant of ngg: the count of all in-service generators, not of those at the bus
ngg_all(gbusA, p) == Cardinality(DOMAIN gbusA)

\* ngg = Cg * Cg.sum(0).T: number of in-service gens at the bus of gen on[p]
ngg(gbusA, p) == Cardinality({q \in DOMAIN gbusA : gbusA[q] = gbusA[p]})

\* a mutant of ig_of: no generator is recognised as sitting at a zero-range bus
ig_none(gbusA, Qg_min, Qg_max) == {}

\* ig = find(Cg * Qg_min == Cg * Qg_max): gens at buses with Qg range = 0
ig_of(gbusA, Qg_min, Qg_max) ==
  {p \in DOMAIN gbusA : Qg_min[gbusA[p]] = Qg_max[gbusA[p]]}

\* (Qg_tot - Qg_min) / (Qg_max - Qg_min + EPS) at one bus
\* (EPS is line 22 of the source; see the note on numbers above)
guarded_quot(num, range) ==
  IF range = 0
  THEN IF num[1] = 0 THEN Zero ELSE HUGE
  ELSE RDiv(num, FromInt(range))

\* gen[on, QG] = vals
set_QG(genT, onA, vals) ==
  [i \in DOMAIN genT |->
     IF i \in Range(onA)
     THEN [genT[i] EXCEPT !.QG = vals[CHOOSE p \in DOMAIN onA : onA[p] = i]]
     ELSE genT[i]]

update_q(bMVA, busT, genT, gbusA, SbusA, onA) ==
  LET nb == Cardinality(DOMAIN busT)
      zeroed == [i \in DOMAIN genT |-> [genT[i] EXCEPT !.QG = Zero]]
      \* inj Q + local Qd, the bus total given to every generator of the bus
      total == [p \in DOMAIN onA |->
                  FromInt(SbusA[p].im * bMVA + busT[gbusA[p]].QD)]
      \* divided by the number of generators at the bus
      equal == [p \in DOMAIN onA |-> RDiv(total[p], FromInt(ngg(gbusA, p)))]
      at(b) == {p \in DOMAIN onA : gbusA[p] = b}
      Qg_tot == [b \in 0 .. (nb - 1) |-> RSum(at(b), equal)]
      Qg_min == [b \in 0 .. (nb - 1) |->
                   ISum(at(b), [p \in DOMAIN onA |-> genT[onA[p]].QMIN])]
      Qg_max == [b \in 0 .. (nb - 1) |->
                   ISum(at(b), [p \in DOMAIN onA |-> genT[onA[p]].QMAX])]
      ig == ig_of(gbusA, Qg_min, Qg_max)
      Qg_save == [p \in ig |-> equal[p]]
      prop == [p \in DOMAIN onA |->
                 RAdd(FromInt(genT[onA[p]].QMIN),
                      RMul(guarded_quot(RSub(Qg_tot[gbusA[p]],
                                             FromInt(Qg_min[gbusA[p]])),
                                        Qg_max[gbusA[p]] - Qg_min[gbusA[p]]),
                           FromInt(genT[onA[p]].QMAX - genT[onA[p]].QMIN)))]
      restored == [p \in DOMAIN onA |-> IF p \in ig THEN Qg_save[p] ELSE prop[p]]
  IN  IF Cardinality(DOMAIN onA) > 1
      THEN set_QG(zeroed, onA, restored)
      ELSE set_QG(zeroed, onA, total)

\* ---- _update_p ----
gens_at_bus(gbusA, slack_bus) == find({p \in DOMAIN gbusA : gbusA[p] = slack_bus})

p_bus_of(bMVA, busT, SbusA, gab, slack_bus) ==
  SbusA[gab[0]].re * bMVA + busT[slack_bus].PD

\* lines 79-82: gens_at_bus holds positions in `on`; they are intersected with
\* ref_gens and used as row numbers of gen, as the code does
update_p_multi(bMVA, busT, genT, gab, SbusA, refg, slack_bus) ==
  LET p_bus == p_bus_of(bMVA, busT, SbusA, gab, slack_bus)
      ext_grids == Range(gab) \cap refg
      pv_gens == Range(gab) \ ext_grids
      p_ext_grids == RSub(FromInt(p_bus),
                          RSum(pv_gens, [i \in pv_gens |-> genT[i].PG]))
      share == RDiv(p_ext_grids, FromInt(Cardinality(ext_grids)))
  IN  [i \in DOMAIN genT |->
         IF i \in ext_grids THEN [genT[i] EXCEPT !.PG = share] ELSE genT[i]]

\* line 84
update_p_single(bMVA, busT, genT, gab, onA, SbusA, slack_bus) ==
  [genT EXCEPT ![onA[gab[0]]].PG =
     FromInt(p_bus_of(bMVA, busT, SbusA, gab, slack_bus))]

\* ---- branch power flows, lines 50-60 ----
out_of(branchT) == find({r \in DOMAIN branchT : branchT[r].BR_STATUS = 0})
br_of(branchT) == find({r \in DOMAIN branchT : branchT[r].BR_STATUS # 0})

\* a mutant of Sf_of: the flow at the "from" end computed with the "to" bus voltage
Sf_tbus(bMVA, branchT, YfM, Vv, r) ==
  CScale(CMul(Vv[branchT[r].T_BUS], conj(RowTimes(YfM, r, Vv))), bMVA)

Sf_of(bMVA, branchT, YfM, Vv, r) ==
  CScale(CMul(Vv[branchT[r].F_BUS], conj(RowTimes(YfM, r, Vv))), bMVA)

St_of(bMVA, branchT, YtM, Vv, r) ==
  CScale(CMul(Vv[branchT[r].T_BUS], conj(RowTimes(YtM, r, Vv))), bMVA)

write_flows(bMVA, branchT, YfM, YtM, Vv) ==
  LET br == br_of(branchT)
      out == out_of(branchT)
  IN  [r \in DOMAIN branchT |->
         IF r \in Range(br)
         THEN [branchT[r] EXCEPT
                 !.PF = Sf_of(bMVA, branchT, YfM, Vv, r).re,
                 !.QF = Sf_of(bMVA, branchT, YfM, Vv, r).im,
                 !.PT = St_of(bMVA, branchT, YtM, Vv, r).re,
                 !.QT = St_of(bMVA, branchT, YtM, Vv, r).im]
         ELSE IF r \in Range(out)
         THEN [branchT[r] EXCEPT !.PF = 0, !.QF = 0, !.PT = 0, !.QT = 0]
         ELSE branchT[r]]

\* ---- the inputs of a call ----
\* generators sit at the first two buses; further buses carry load only
GenBuses == {b \in Buses : b < 2}

\* at most one generator row is out of service
OffChoices == {{}} \cup {{i} : i \in GenRows}

\* reactive limits <<QMIN, QMAX>> per generator row
QProfiles ==
  { [i \in GenRows |-> <<-10, 10>>],
    [i \in GenRows |-> <<5, 5>>],
    [i \in GenRows |-> IF i % 2 = 0 THEN <<-10, 10>> ELSE <<0, 5>>],
    [i \in GenRows |-> IF i % 2 = 0 THEN <<0, 10>> ELSE <<10, 0>>] }

MkGen(off, gb, q) ==
  [i \in GenRows |->
     [GEN_BUS |-> gb[i], GEN_STATUS |-> IF i \in off THEN 0 ELSE 1,
      PG |-> FromInt(10 * (i + 1)), QG |-> FromInt(7),
      QMIN |-> q[i][1], QMAX |-> q[i][2]]]

\* flat start; bus b draws Pd = b + 1 and Qd = b
MkBus == [b \in Buses |-> [VM |-> 1, VA |-> 0, PD |-> b + 1, QD |-> b]]

\* branch r runs from bus r mod NB to the next bus; stale flows when `stale`
MkBranch(outs, stale) ==
  [r \in BranchRows |->
     [F_BUS |-> r % NB, T_BUS |-> (r + 1) % NB,
      BR_STATUS |-> IF r \in outs THEN 0 ELSE 1,
      PF |-> IF stale THEN 1 ELSE 0, QF |-> IF stale THEN 2 ELSE 0,
      PT |-> IF stale THEN 3 ELSE 0, QT |-> IF stale THEN 4 ELSE 0]]

VProfiles ==
  { [b \in Buses |-> Cx(1, 0)],
    [b \in Buses |-> IF b % 2 = 0 THEN Cx(1, 0) ELSE Cx(0, 1)],
    [b \in Buses |-> IF b % 2 = 0 THEN Cx(0, 2) ELSE Cx(-1, 0)] }

MkYbus == [i \in Buses |-> [j \in Buses |-> IF i = j THEN Cx(2, -3) ELSE Cx(-1, 1)]]

MkYf(branchT) ==
  [r \in BranchRows |-> [j \in Buses |->
     IF j = branchT[r].F_BUS THEN Cx(1, -2)
     ELSE IF j = branchT[r].T_BUS THEN Cx(-1, 2) ELSE Cx(0, 0)]]

MkYt(branchT) ==
  [r \in BranchRows |-> [j \in Buses |->
     IF j = branchT[r].T_BUS THEN Cx(1, -3)
     ELSE IF j = branchT[r].F_BUS THEN Cx(-1, 2) ELSE Cx(0, 0)]]

\* line 42: Ibus = zeros(len(V)) when no Ibus is passed
Ibus_default == [b \in Buses |-> Cx(0, 0)]
IbusChoices == {Ibus_default, [b \in Buses |-> Cx(1, 1)]}

\* ref: one reference bus, or an ordered pair of distinct generator buses
RefChoices == {<<a>> : a \in Buses} \cup
              ({<<a, b>> : a, b \in GenBuses} \ {<<a, a>> : a \in GenBuses})

\* ref_gens: no generator, one row, two neighbouring rows, or every row
RefGenChoices ==
  {{}, GenRows} \cup {{i} : i \in GenRows} \cup
  {{i, i + 1} \cap GenRows : i \in GenRows}

Cfg(bm, g, br, v, ib, rf, rg) ==
  [baseMVA |-> bm, gen |-> g, branch |-> br, V |-> v, Ibus |-> ib,
   ref |-> rf, ref_gens |-> rg]

\* slack handling: every placement, reference sequence and ref_gens
SlackInputs ==
  { Cfg(3, MkGen(off, gb, [i \in GenRows |-> <<-10, 10>>]), MkBranch({}, FALSE),
        [b \in Buses |-> IF b % 2 = 0 THEN Cx(1, 0) ELSE Cx(0, 1)],
        Ibus_default, rf, rg) :
      off \in OffChoices, gb \in [GenRows -> GenBuses],
      rf \in RefChoices, rg \in RefGenChoices }

\* reactive dispatch: every placement, limit profile, voltage and Ibus
ReactiveInputs ==
  { Cfg(3, MkGen(off, gb, q), MkBranch({}, FALSE), v, ib, <<a>>, GenRows) :
      off \in OffChoices, gb \in [GenRows -> GenBuses], q \in QProfiles,
      v \in VProfiles, ib \in IbusChoices, a \in GenBuses }

\* branch flows: every set of out-of-service branches, fresh or stale flows
BranchInputs ==
  { Cfg(bm, MkGen(off, gb, [i \in GenRows |-> <<-10, 10>>]),
        MkBranch(outs, stale), v, Ibus_default, <<a>>, {0}) :
      bm \in {1, 3}, outs \in SUBSET BranchRows, stale \in BOOLEAN,
      v \in VProfiles, a \in GenBuses, off \in OffChoices,
      gb \in {[i \in GenRows |-> 0], [i \in GenRows |-> i % 2]} }

Inputs == SlackInputs \cup ReactiveInputs \cup BranchInputs

Init ==
  \E c \in Inputs :
    /\ baseMVA = c.baseMVA
    /\ bus = MkBus
    /\ gen = c.gen
    /\ branch = c.branch
    /\ Ybus = MkYbus
    /\ Yf = MkYf(c.branch)
    /\ Yt = MkYt(c.branch)
    /\ V = c.V
    /\ ref = c.ref
    /\ ref_gens = c.ref_gens
    /\ Ibus = c.Ibus
    /\ pc = "update_v"
    /\ k = 0
    /\ outcome = "running"
    /\ call = 1
    /\ bus_pre = MkBus
    /\ gen_pre = c.gen
    /\ branch_pre = c.branch
    /\ ret1 = <<>>

\* ---- pfsoln, one action per step ----
\* line 45
UpdateV ==
  /\ pc = "update_v"
  /\ bus' = update_v(bus, V)
  /\ pc' = "update_q"
  /\ UNCHANGED <<gen, branch, inputs, pre, k, outcome, call, ret1>>

\* line 46
UpdateQ ==
  /\ pc = "update_q"
  /\ gen' = update_q(baseMVA, bus, gen, gbus, Sbus, on)
  /\ pc' = "update_p"
  /\ k' = 0
  /\ UNCHANGED <<bus, branch, inputs, pre, outcome, call, ret1>>

\* line 47: one iteration of `for slack_bus in ref`
slack_bus == ref[k + 1]

\* line 76: gens_at_bus[0] of an empty array raises IndexError
UpdateP_IndexError ==
  /\ pc = "update_p"
  /\ k < Len(ref)
  /\ DOMAIN gens_at_bus(gbus, slack_bus) = {}
  /\ outcome' = "IndexError"
  /\ pc' = "done"
  /\ UNCHANGED <<bus, gen, branch, inputs, pre, k, call, ret1>>

UpdateP_Multi ==
  /\ pc = "update_p"
  /\ k < Len(ref)
  /\ Cardinality(DOMAIN gens_at_bus(gbus, slack_bus)) > 1
  /\ gen' = update_p_multi(baseMVA, bus, gen, gens_at_bus(gbus, slack_bus),
                           Sbus, ref_gens, slack_bus)
  /\ k' = k + 1
  /\ UNCHANGED <<bus, branch, inputs, pre, pc, outcome, call, ret1>>

UpdateP_Single ==
  /\ pc = "update_p"
  /\ k < Len(ref)
  /\ Cardinality(DOMAIN gens_at_bus(gbus, slack_bus)) = 1
  /\ gen' = update_p_single(baseMVA, bus, gen, gens_at_bus(gbus, slack_bus),
                            on, Sbus, slack_bus)
  /\ k' = k + 1
  /\ UNCHANGED <<bus, branch, inputs, pre, pc, outcome, call, ret1>>

UpdateP_Done ==
  /\ pc = "update_p"
  /\ k = Len(ref)
  /\ pc' = "branch"
  /\ UNCHANGED <<bus, gen, branch, inputs, pre, k, outcome, call, ret1>>

\* lines 53-54
Raise ==
  /\ pc = "branch"
  /\ DOMAIN out_of(branch) # {}
  /\ outcome' = "RuntimeError"
  /\ pc' = "done"
  /\ UNCHANGED <<bus, gen, branch, inputs, pre, k, call, ret1>>

\* lines 56-62
Return ==
  /\ pc = "branch"
  /\ DOMAIN out_of(branch) = {}
  /\ branch' = write_flows(baseMVA, branch, Yf, Yt, V)
  /\ outcome' = "returned"
  /\ pc' = "done"
  /\ UNCHANGED <<bus, gen, inputs, pre, k, call, ret1>>

\* the caller feeds the returned tables to a second call with the same
\* V, Ybus, Yf, Yt, ref, ref_gens and Ibus
CallAgain ==
  /\ pc = "done"
  /\ outcome = "returned"
  /\ call = 1
  /\ ret1' = <<bus, gen, branch>>
  /\ bus_pre' = bus
  /\ gen_pre' = gen
  /\ branch_pre' = branch
  /\ call' = 2
  /\ pc' = "update_v"
  /\ k' = 0
  /\ outcome' = "running"
  /\ UNCHANGED <<bus, gen, branch, inputs>>

Next ==
  \/ UpdateV
  \/ UpdateQ
  \/ UpdateP_IndexError
  \/ UpdateP_Multi
  \/ UpdateP_Single
  \/ UpdateP_Done
  \/ Raise
  \/ Return
  \/ CallAgain

Spec == Init /\ [][Next]_vars

\* ---- vocabulary of the properties, in generator rows and bus numbers ----
Done == pc = "done"
Returned == pc = "done" /\ outcome = "returned"
Raised == pc = "done" /\ outcome = "RuntimeError"

OnRows == {i \in GenRows : gen[i].GEN_STATUS > 0}
OnAt(b) == {i \in OnRows : gen[i].GEN_BUS = b}
RefBuses == {ref[n] : n \in 1 .. Len(ref)}

\* injected current and power at bus b, from V, Ybus and Ibus
Iinj(b) == CSub(RowTimes(Ybus, b, V), Ibus[b])
Pinj(b) == V[b].re * Iinj(b).re + V[b].im * Iinj(b).im
Qinj(b) == V[b].im * Iinj(b).re - V[b].re * Iinj(b).im
Ptot(b) == Pinj(b) * baseMVA + bus[b].PD
Qtot(b) == Qinj(b) * baseMVA + bus[b].QD

SumQG(S) == RSum(S, [i \in S |-> gen[i].QG])
SumPG(S) == RSum(S, [i \in S |-> gen[i].PG])
SumQMIN(S) == ISum(S, [i \in S |-> gen[i].QMIN])
SumQMAX(S) == ISum(S, [i \in S |-> gen[i].QMAX])

\* C1: whenever the branch table holds a row with BR_STATUS = 0 at the call,
\* the call ends by raising RuntimeError (and so returns no tables).
C1_OutOfServiceRaisesRuntimeError ==
  (Done /\ \E r \in BranchRows : branch_pre[r].BR_STATUS = 0)
    => outcome = "RuntimeError"

\* C2: after a successful call the Qg of the in-service generators of a bus
\* add up to Im(S_bus) * baseMVA + Qd of the bus, for every bus hosting one.
C2_ReactiveConservation ==
  Returned =>
    \A b \in Buses : OnAt(b) # {} => SumQG(OnAt(b)) = FromInt(Qtot(b))

\* a bus with three in-service generators of unequal reactive range, returned
C2_Witness ==
  /\ Returned
  /\ \E b \in Buses :
       /\ Cardinality(OnAt(b)) >= 3
       /\ \E i, j \in OnAt(b) :
            gen[i].QMAX - gen[i].QMIN # gen[j].QMAX - gen[j].QMIN
       /\ Qtot(b) # 0

\* C3: after a successful call the Pg of the in-service generators at every
\* reference bus add up to Re(S_r) * baseMVA + Pd of the bus, also when
\* out-of-service rows precede the generators of the bus.  Stated for the
\* reference buses that host a single in-service generator or one of ref_gens
\* (a bus with several generators and none of ref_gens is the case of C4).
C3_SlackConservation ==
  Returned =>
    \A r \in RefBuses :
      (Cardinality(OnAt(r)) = 1 \/ OnAt(r) \cap ref_gens # {})
        => SumPG(OnAt(r)) = FromInt(Ptot(r))

\* C4: a reference bus with several in-service generators, none of them in
\* ref_gens, makes the call end in an error instead of returning tables.
C4_NoFixedInjectionIsError ==
  (Done /\ \E r \in RefBuses :
             Cardinality(OnAt(r)) > 1 /\ OnAt(r) \cap ref_gens = {})
    => outcome # "returned"

\* C5: when a call has ended, every generator with GEN_STATUS <= 0 has
\* Qg = 0 and the Pg it had before the call.
C5_OnlyInServiceWritten ==
  Done =>
    \A i \in GenRows :
      gen[i].GEN_STATUS <= 0
        => gen[i].QG = Zero /\ gen[i].PG = gen_pre[i].PG

\* C6: a second call on the tables returned by a first successful call, with
\* the same V, Ybus, Yf, Yt, ref, ref_gens and Ibus, returns identical tables.
C6_Idempotent ==
  (Returned /\ call = 2) => <<bus, gen, branch>> = ret1

\* C7: with more than one generator in service, every in-service generator i
\* at bus b ends with Qmin_i + (Qtot_b - SumQmin_b) / (SumQmax_b - SumQmin_b)
\* * (Qmax_i - Qmin_i), and with the equal split Qtot_b / n_b when
\* SumQmin_b = SumQmax_b.
C7_ReactiveApportionment ==
  (Returned /\ Cardinality(OnRows) > 1) =>
    \A i \in OnRows :
      LET S == OnAt(gen[i].GEN_BUS)
          tot == FromInt(Qtot(gen[i].GEN_BUS))
          lo == SumQMIN(S)
          hi == SumQMAX(S)
      IN  IF lo = hi
          THEN gen[i].QG = RDiv(tot, FromInt(Cardinality(S)))
          ELSE gen[i].QG =
                 RAdd(FromInt(gen[i].QMIN),
                      RMul(RDiv(RSub(tot, FromInt(lo)), FromInt(hi - lo)),
                           FromInt(gen[i].QMAX - gen[i].QMIN)))

\* the scenario of the specification: two in-service generators at bus 0 with
\* limits -10/10, bus total 6, each dispatched 3
C7_Witness ==
  /\ Returned
  /\ Cardinality(OnAt(0)) = 2
  /\ Qtot(0) = 6
  /\ \A i \in OnAt(0) :
       gen[i].QMIN = -10 /\ gen[i].QMAX = 10 /\ gen[i].QG = FromInt(3)

\* C8: after a successful call every branch row holds
\* PF + j QF = V[F_BUS] * conj((Yf V)_k) * baseMVA and
\* PT + j QT = V[T_BUS] * conj((Yt V)_k) * baseMVA, whatever the four fields
\* held before, and no row with BR_STATUS = 0 has a non-zero flow field.
C8_BranchFlows ==
  Returned =>
    \A r \in BranchRows :
      LET vf == V[branch[r].F_BUS]
          vt == V[branch[r].T_BUS]
          cf == RowTimes(Yf, r, V)
          ct == RowTimes(Yt, r, V)
      IN  /\ branch[r].PF = (vf.re * cf.re + vf.im * cf.im) * baseMVA
          /\ branch[r].QF = (vf.im * cf.re - vf.re * cf.im) * baseMVA
          /\ branch[r].PT = (vt.re * ct.re + vt.im * ct.im) * baseMVA
          /\ branch[r].QT = (vt.im * ct.re - vt.re * ct.im) * baseMVA
          /\ branch[r].BR_STATUS = 0 =>
               /\ branch[r].PF = 0 /\ branch[r].QF = 0
               /\ branch[r].PT = 0 /\ branch[r].QT = 0

\* a first call returned on a table whose flow fields held stale values
C8_Witness ==
  /\ Returned
  /\ call = 1
  /\ \A r \in BranchRows :
       /\ branch_pre[r].PF = 1 /\ branch_pre[r].QT = 4
       /\ branch[r].PF # branch_pre[r].PF
       /\ branch[r].QT # branch_pre[r].QT

\* C9: a call on a table without out-of-service branch, and without a
\* reference bus that hosts several in-service generators and none of
\* ref_gens, runs to completion and returns the tables.
C9_NoOtherFailure ==
  (/\ Done
   /\ \A r \in BranchRows : branch_pre[r].BR_STATUS # 0
   /\ \A r \in RefBuses :
        ~(Cardinality(OnAt(r)) > 1 /\ OnAt(r) \cap ref_gens = {}))
    => outcome = "returned"

\* the unit phasor at an angle given in degrees
UnitAt(deg) ==
  CASE deg = 0 -> Cx(1, 0)
    [] deg = 90 -> Cx(0, 1)
    [] deg = 180 -> Cx(-1, 0)
    [] deg = -90 -> Cx(0, -1)
    [] OTHER -> Cx(0, 0)

\* C10: when the call raises for an out-of-service branch, every branch row
\* is as before the call, while the bus table holds the magnitude and angle
\* of V, every Qg is the recomputed one and the slack Pg is assigned.
C10_RaiseAfterUpdates ==
  Raised =>
    /\ branch = branch_pre
    /\ \A b \in Buses :
         bus[b].VM >= 0 /\ CScale(UnitAt(bus[b].VA), bus[b].VM) = V[b]
    /\ \A i \in GenRows \ OnRows : gen[i].QG = Zero
    /\ \A b \in Buses : OnAt(b) # {} => SumQG(OnAt(b)) = FromInt(Qtot(b))
    /\ OnRows = GenRows =>
         \A r \in RefBuses :
           (Cardinality(OnAt(r)) = 1 \/ OnAt(r) \cap ref_gens # {})
             => SumPG(OnAt(r)) = FromInt(Ptot(r))

\* a call raised on a table with stale flows, off the flat start, after the
\* slack generator was given a new Pg
C10_Witness ==
  /\ Raised
  /\ branch[0].PF = 1
  /\ \E b \in Buses : bus[b].VA # bus_pre[b].VA
  /\ \E i \in GenRows : gen[i].PG # gen_pre[i].PG /\ gen[i].QG # gen_pre[i].QG
====
